---- MODULE Spec2Model ----
(***************************************************************************)
(* Model of scripts/update-layout.py: the box-drawing grid renderer        *)
(* render_grid and the three grid-construction adapters build_4col,        *)
(* build_2col and build_1col.                                              *)
(*                                                                         *)
(* Text is a sequence of one-character strings.  The box-drawing glyphs    *)
(* are not in the character set of the module language, so each glyph is   *)
(* the string "+" followed by the arms it has, in the order Up, Right,     *)
(* Down, Left; the blank is the ordinary space.  The python None is the    *)
(* string "None" (identifiers are single lower-case letters).  Rows and    *)
(* columns keep the 0-based numbering of the source; the sequences that    *)
(* hold them are indexed from 1.                                           *)
(***************************************************************************)
EXTENDS Integers, Sequences, FiniteSets

VARIABLES LABELS, op, grid, col_width, placements, source_order,
          lines, result, raised

vars == <<LABELS, op, grid, col_width, placements, source_order,
          lines, result, raised>>

----------------------------------------------------------------------------
(* Bounds of the model *)

\* a grid handed to render_grid directly has at most MaxRows rows, MaxCols
\* columns and MaxCells slots
MaxRows == 3
MaxCols == 3
MaxCells == 4
\* column widths handed to render_grid directly are 1..MaxWidth
MaxWidth == 4
\* source orders handed to build_2col / build_1col have at most MaxOrderLen cells
MaxOrderLen == 4
\* grid-column / grid-row line numbers of a placement are 1..MaxExtent+1
MaxExtent == 2

----------------------------------------------------------------------------
(* Values *)

None == "None"

\* the cell letters: the keys of the label table
Identifiers == {"a", "b", "c", "d", "e"}

Cells == Identifiers \cup {None}

\* the glyphs of the box table, named by their arms
CROSS     == "+URDL"   \* ┼
TEE_RIGHT == "+URD"    \* ├
TEE_LEFT  == "+UDL"    \* ┤
TEE_UP    == "+URL"    \* ┴
TEE_DOWN  == "+RDL"    \* ┬
CORNER_UR == "+UR"     \* └
CORNER_UL == "+UL"     \* ┘
HLINE     == "+RL"     \* ─
CORNER_DL == "+DL"     \* ┐
CORNER_RD == "+RD"     \* ┌
VLINE     == "+UD"     \* │
STUB_U    == "+U"      \* ╵
STUB_R    == "+R"      \* ╶
STUB_D    == "+D"      \* ╷
STUB_L    == "+L"      \* ╴
SPACE     == " "
NEWLINE   == "\n"

\* the module-level label table of the source
SourceLabels ==
  [a |-> <<"S","T","A","T","U","S">>,
   b |-> <<"I","N","P","U","T","_","S","T","R","E","A","M">>,
   c |-> <<"G","H","_","S","T","A","T","S">>,
   d |-> <<"C","O","R","R","U","P","T","_","D","A","T","A">>,
   e |-> <<"R","E","C","E","N","T","_","C","O","M","M","I","T","S">>]

\* the table of the trivial-grid scenario: 'a' is labelled "Alpha", the other
\* letters have no entry
AlphaLabels == [a |-> <<"A","l","p","h","a">>]

LabelTables == {SourceLabels, AlphaLabels}

\* str.upper() on a cell letter
upper(cur) ==
  CASE cur = "a" -> "A" [] cur = "b" -> "B" [] cur = "c" -> "C"
    [] cur = "d" -> "D" [] cur = "e" -> "E" [] cur = "f" -> "F"

\* LABELS.get(cur, cur.upper())
LabelOf(labels, cur) ==
  IF cur \in DOMAIN labels THEN labels[cur] ELSE <<upper(cur)>>

\* f"[{cur.upper()}]"
LetterOf(cur) == <<"[", upper(cur), "]">>

----------------------------------------------------------------------------
(* String helpers *)

\* ch * n
Rep(ch, n) == [i \in 1..n |-> ch]

\* the cut left out: the text is only padded
Truncate_Off(text, n) == text

\* text[:n]
Truncate(text, n) == IF Len(text) <= n THEN text ELSE SubSeq(text, 1, n)

\* text.ljust(n)
Ljust(text, n) == IF Len(text) >= n THEN text ELSE text \o Rep(SPACE, n - Len(text))

RECURSIVE Join(_)
\* "\n".join(ls)
Join(ls) ==
  IF Len(ls) = 0 THEN <<>>
  ELSE IF Len(ls) = 1 THEN ls[1]
  ELSE ls[1] \o <<NEWLINE>> \o Join(Tail(ls))

RECURSIVE Concat(_)
\* the concatenation of a sequence of texts
Concat(ts) == IF Len(ts) = 0 THEN <<>> ELSE ts[1] \o Concat(Tail(ts))

----------------------------------------------------------------------------
(* render_grid *)

\* rows = len(grid)
NumRows(g) == Len(g)

\* cols = len(grid[0]) if grid else 0
NumCols(g) == IF Len(g) = 0 THEN 0 ELSE Len(g[1])

\* only the number of rows is tested
IsEmptyGrid_RowsOnly(g) == NumRows(g) = 0

\* the early return: not rows or not cols
IsEmptyGrid(g) == NumRows(g) = 0 \/ NumCols(g) = 0

InRange(g, r, c) == r >= 0 /\ r < NumRows(g) /\ c >= 0 /\ c < NumCols(g)

\* the test for None left out: two unfilled slots count as the same cell
same_NoneToo(g, r, c, r2, c2) ==
  IF ~InRange(g, r, c) THEN FALSE
  ELSE IF ~InRange(g, r2, c2) THEN FALSE
  ELSE g[r + 1][c + 1] = g[r2 + 1][c2 + 1]

\* same(r, c, r2, c2): the two positions hold the same non-None cell
same(g, r, c, r2, c2) ==
  IF ~InRange(g, r, c) THEN FALSE
  ELSE IF ~InRange(g, r2, c2) THEN FALSE
  ELSE g[r + 1][c + 1] # None /\ g[r + 1][c + 1] = g[r2 + 1][c2 + 1]

\* cell(r, c): the slot, None outside the grid
cell(g, r, c) == IF InRange(g, r, c) THEN g[r + 1][c + 1] ELSE None

\* the four segment flags of the corner left of column c on the border above
\* row r: the first assignment, then the overrides for r == 0 and for c == 0
seg_up(g, r, c) ==
  LET tl == cell(g, r - 1, c - 1)
      tr == cell(g, r - 1, c)
      first == (c = 0 /\ r > 0) \/ (r > 0 /\ tl # tr)
      at_r0 == IF r = 0 THEN FALSE ELSE first
  IN  IF c = 0 THEN r > 0 ELSE at_r0

seg_down(g, r, c) ==
  LET bl == cell(g, r, c - 1)
      br == cell(g, r, c)
      first == (c = 0 /\ r < NumRows(g)) \/ (bl # br)
      at_r0 == IF r = 0 THEN TRUE ELSE first
  IN  IF c = 0 THEN TRUE ELSE at_r0

seg_left(g, r, c) ==
  LET tl == cell(g, r - 1, c - 1)
      bl == cell(g, r, c - 1)
      first == (r = 0 /\ c > 0) \/ (c > 0 /\ tl # bl)
      at_r0 == IF r = 0 THEN c > 0 ELSE first
  IN  IF c = 0 THEN FALSE ELSE at_r0

seg_right(g, r, c) ==
  LET tr == cell(g, r - 1, c)
      br == cell(g, r, c)
      first == (r = 0) \/ (tr # br)
  IN  IF r = 0 THEN TRUE ELSE first

\* the table box, keyed by (seg_up, seg_right, seg_down, seg_left)
box(up, right, down, left) ==
  CASE  up /\  right /\  down /\  left -> CROSS
    []  up /\  right /\  down /\ ~left -> TEE_RIGHT
    []  up /\ ~right /\  down /\  left -> TEE_LEFT
    []  up /\  right /\ ~down /\  left -> TEE_UP
    [] ~up /\  right /\  down /\  left -> TEE_DOWN
    []  up /\  right /\ ~down /\ ~left -> CORNER_UR
    []  up /\ ~right /\ ~down /\  left -> CORNER_UL
    [] ~up /\  right /\ ~down /\  left -> HLINE
    [] ~up /\ ~right /\  down /\  left -> CORNER_DL
    [] ~up /\  right /\  down /\ ~left -> CORNER_RD
    []  up /\ ~right /\  down /\ ~left -> VLINE
    []  up /\ ~right /\ ~down /\ ~left -> STUB_U
    [] ~up /\  right /\ ~down /\ ~left -> STUB_R
    [] ~up /\ ~right /\  down /\ ~left -> STUB_D
    [] ~up /\ ~right /\ ~down /\  left -> STUB_L
    [] ~up /\ ~right /\ ~down /\ ~left -> SPACE

\* ch: the corner character left of column c on the border above row r
CornerChar(g, r, c) ==
  LET at_top == r = 0
      at_left == c = 0
  IN  IF at_top /\ at_left THEN CORNER_RD
      ELSE IF at_top /\ seg_down(g, r, c) THEN TEE_DOWN
      ELSE IF at_top THEN HLINE
      ELSE IF at_left /\ seg_right(g, r, c) THEN TEE_RIGHT
      ELSE IF at_left THEN VLINE
      ELSE box(seg_up(g, r, c), seg_right(g, r, c),
               seg_down(g, r, c), seg_left(g, r, c))

\* the horizontal fill between column c and the next
Fill(g, w, r, c) ==
  IF same(g, r - 1, c, r, c) THEN Rep(SPACE, w) ELSE Rep(HLINE, w)

\* the right edge corner of the border above row r
RightEdge(g, r) ==
  LET tr_cell == cell(g, r - 1, NumCols(g) - 1)
      br_cell == cell(g, r, NumCols(g) - 1)
  IN  IF r = 0 THEN CORNER_DL
      ELSE IF tr_cell # None /\ tr_cell = br_cell THEN VLINE
      ELSE TEE_LEFT

\* top: the border line above row r
TopLine(g, w, r) ==
  Concat([i \in 1..NumCols(g) |-> <<CornerChar(g, r, i - 1)>> \o Fill(g, w, r, i - 1)])
    \o <<RightEdge(g, r)>>

RECURSIVE SpanLen(_, _, _, _)
\* the inner while loop: the length of the run of cur that starts at column c,
\* counted from span
SpanLen(g, r, c, span) ==
  IF c + span < NumCols(g) /\ g[r + 1][c + span + 1] = g[r + 1][c + 1]
  THEN SpanLen(g, r, c, span + 1)
  ELSE span

RECURSIVE SpansFrom(_, _, _)
\* the outer while loop: the spans (start, span, cur) of row r from column c on
SpansFrom(g, r, c) ==
  IF c < NumCols(g)
  THEN LET span == SpanLen(g, r, c, 1)
       IN  <<[start |-> c, span |-> span, cur |-> g[r + 1][c + 1]]>>
             \o SpansFrom(g, r, c + span)
  ELSE <<>>

\* the interior borders a merge removes are not added to the width
InnerWidth_NoJoin(w, span) == w * span

\* inner_w of a span
InnerWidth(w, span) == w * span + (span - 1)

\* every row of a span counts as its first
FirstRow_Always(g, r, start, cur) == TRUE

\* first_row: the row above does not exist or holds another value at start
FirstRow(g, r, start, cur) == r = 0 \/ g[r][start + 1] # cur

\* text of one span on content line line_idx, cut and padded to inner_w
SpanText(labels, g, w, r, sp, line_idx) ==
  LET inner_w == InnerWidth(w, sp.span)
      text == IF FirstRow(g, r, sp.start, sp.cur)
              THEN IF line_idx = 0
                   THEN <<SPACE, SPACE>> \o LabelOf(labels, sp.cur)
                   ELSE <<SPACE, SPACE>> \o LetterOf(sp.cur)
              ELSE <<>>
  IN  IF sp.cur # None
      THEN Ljust(Truncate(text, inner_w), inner_w)
      ELSE Rep(SPACE, inner_w)

\* content: one of the two content lines of row r
ContentLine(labels, g, w, r, line_idx) ==
  LET spans == SpansFrom(g, r, 0)
  IN  Concat([i \in 1..Len(spans) |->
                <<VLINE>> \o SpanText(labels, g, w, r, spans[i], line_idx)])
        \o <<VLINE>>

\* the tee of the top border used on the bottom border
BottomChar_TopTee(g, c) ==
  LET bl == cell(g, NumRows(g) - 1, c - 1)
      br == cell(g, NumRows(g) - 1, c)
  IN  IF c = 0 THEN CORNER_UR
      ELSE IF bl # br THEN TEE_DOWN
      ELSE HLINE

\* the corner character of the bottom border left of column c
BottomChar(g, c) ==
  LET bl == cell(g, NumRows(g) - 1, c - 1)
      br == cell(g, NumRows(g) - 1, c)
  IN  IF c = 0 THEN CORNER_UR
      ELSE IF bl # br THEN TEE_UP
      ELSE HLINE

\* bottom: the bottom border
BottomLine(g, w) ==
  Concat([i \in 1..NumCols(g) |-> <<BottomChar(g, i - 1)>> \o Rep(HLINE, w)])
    \o <<CORNER_UL>>

\* the three lines appended for row r
RowLines(labels, g, w, r) ==
  <<TopLine(g, w, r), ContentLine(labels, g, w, r, 0), ContentLine(labels, g, w, r, 1)>>

\* the list lines at the return of render_grid (empty at the early return)
RenderLines(labels, g, w) ==
  IF IsEmptyGrid(g) THEN <<>>
  ELSE Concat([i \in 1..NumRows(g) |-> RowLines(labels, g, w, i - 1)])
         \o <<BottomLine(g, w)>>

\* render_grid(grid, col_width)
render_grid(labels, g, w) == Join(RenderLines(labels, g, w))

----------------------------------------------------------------------------
(* The adapters *)

\* col_width of the three adapters
Width4Col == 16
Width2Col == 20
Width1Col == 40

RECURSIVE MaxOf(_)
\* max() of a non-empty sequence of numbers
MaxOf(ns) ==
  IF Len(ns) = 1 THEN ns[1]
  ELSE LET m == MaxOf(Tail(ns)) IN IF ns[1] >= m THEN ns[1] ELSE m

\* one pass of the stamping loop: letter into every slot of its row and column range
Stamp(g, p) ==
  [r \in 1..Len(g) |->
    [c \in 1..Len(g[r]) |->
      IF /\ r - 1 >= p.row[1] - 1 /\ r - 1 < p.row[2] - 1
         /\ c - 1 >= p.col[1] - 1 /\ c - 1 < p.col[2] - 1
      THEN p.letter
      ELSE g[r][c]]]

RECURSIVE StampAll(_, _)
\* the loop over placements.items(), in the mapping's order
StampAll(g, ps) == IF Len(ps) = 0 THEN g ELSE StampAll(Stamp(g, ps[1]), Tail(ps))

\* the grid of build_4col for a non-empty mapping
Grid4Col(ps) ==
  LET max_row == MaxOf([i \in 1..Len(ps) |-> ps[i].row[2]])
      max_col == MaxOf([i \in 1..Len(ps) |-> ps[i].col[2]])
      rows == max_row - 1
      cols == max_col - 1
  IN  StampAll([r \in 1..rows |-> [c \in 1..cols |-> None]], ps)

\* queue = [c for c in source_order if c != "c"]
Queue2Col(order) == SelectSeq(order, LAMBDA x : x # "c")

\* the odd last cell is not repeated: its right slot stays unfilled
PairRow_NoSpan(queue) ==
  IF Len(queue) >= 2 THEN <<queue[1], queue[2]>> ELSE <<queue[1], None>>

\* the row built from a non-empty queue: its first two cells, or the last cell twice
PairRow(queue) ==
  IF Len(queue) >= 2 THEN <<queue[1], queue[2]>> ELSE <<queue[1], queue[1]>>

\* what the pops leave of a non-empty queue
AfterPops(queue) == IF Len(queue) >= 2 THEN Tail(Tail(queue)) ELSE Tail(queue)

RECURSIVE Loop2Col(_, _, _, _)
\* the loop of build_2col from the i-th cell of source_order on
Loop2Col(order, i, queue, g) ==
  IF i > Len(order) THEN g
  ELSE IF order[i] = "c" THEN Loop2Col(order, i + 1, queue, Append(g, <<"c", "c">>))
  ELSE IF Len(queue) > 0
       THEN Loop2Col(order, i + 1, AfterPops(queue), Append(g, PairRow(queue)))
  ELSE Loop2Col(order, i + 1, queue, g)

\* the grid of build_2col
Grid2Col(order) == Loop2Col(order, 1, Queue2Col(order), <<>>)

\* the grid of build_1col
Grid1Col(order) == [i \in 1..Len(order) |-> <<order[i]>>]

----------------------------------------------------------------------------
(* Inputs *)

\* the shapes rows x cols of the grids within the bounds
Shapes == {sh \in (1..MaxRows) \X (1..MaxCols) : sh[1] * sh[2] <= MaxCells}

\* rectangular grids of slots, and the grids with no row or with no column
Grids ==
  UNION {[1..sh[1] -> [1..sh[2] -> Cells]] : sh \in Shapes}
    \cup {<<>>, <<<<>>>>, <<<<>>, <<>>>>}

Widths == 1..MaxWidth

\* source orders: sequences of cell letters
Orders == UNION {[1..n -> Identifiers] : n \in 0..MaxOrderLen}

\* a 1-indexed half-open range of grid lines
Ranges == {rg \in (1..MaxExtent + 1) \X (1..MaxExtent + 1) : rg[1] < rg[2]}

\* placement mappings of the cells a and b, in insertion order
PlacementOf(l) == [letter : {l}, col : Ranges, row : Ranges]

PlacementMaps ==
  {<<>>} \cup {<<p>> : p \in PlacementOf("a")}
         \cup {<<p, q>> : p \in PlacementOf("a"), q \in PlacementOf("b")}

----------------------------------------------------------------------------
(* The state machine: the script makes one call of render_grid or of an     *)
(* adapter from its start state; a behaviour is that call and its return    *)

Init ==
  /\ LABELS \in LabelTables
  /\ op = "none"
  /\ grid = <<>>
  /\ col_width = 0
  /\ placements = <<>>
  /\ source_order = <<>>
  /\ lines = <<>>
  /\ result = <<>>
  /\ raised = "none"

\* the call render_grid(g, w) and its return
Returned(g, w) ==
  /\ grid' = g
  /\ col_width' = w
  /\ lines' = RenderLines(LABELS, g, w)
  /\ result' = render_grid(LABELS, g, w)
  /\ raised' = "none"

CallRenderGrid ==
  /\ op = "none"
  /\ \E g \in Grids, w \in Widths :
       /\ op' = "render_grid"
       /\ Returned(g, w)
       /\ UNCHANGED <<LABELS, placements, source_order>>

\* build_4col(ps): max() of an empty sequence raises ValueError
CallBuild4Col ==
  /\ op = "none"
  /\ \E ps \in PlacementMaps :
       /\ op' = "build_4col"
       /\ placements' = ps
       /\ IF Len(ps) = 0
          THEN /\ raised' = "ValueError"
               /\ grid' = <<>>
               /\ col_width' = 0
               /\ lines' = <<>>
               /\ result' = <<>>
          ELSE Returned(Grid4Col(ps), Width4Col)
       /\ UNCHANGED <<LABELS, source_order>>

CallBuild2Col ==
  /\ op = "none"
  /\ \E order \in Orders :
       /\ op' = "build_2col"
       /\ source_order' = order
       /\ Returned(Grid2Col(order), Width2Col)
       /\ UNCHANGED <<LABELS, placements>>

CallBuild1Col ==
  /\ op = "none"
  /\ \E order \in Orders :
       /\ op' = "build_1col"
       /\ source_order' = order
       /\ Returned(Grid1Col(order), Width1Col)
       /\ UNCHANGED <<LABELS, placements>>

Next ==
  \/ CallRenderGrid
  \/ CallBuild4Col
  \/ CallBuild2Col
  \/ CallBuild1Col

Spec == Init /\ [][Next]_vars

\* The renderer on grids without merges: every slot holds another letter, one
\* of the letters having no label
UnmergedLetters == Identifiers \cup {"f"}

UnmergedGrids ==
  UNION {{g \in [1..sh[1] -> [1..sh[2] -> UnmergedLetters]] :
            \A p \in (1..sh[1]) \X (1..sh[2]) : \A q \in (1..sh[1]) \X (1..sh[2]) :
              g[p[1]][p[2]] = g[q[1]][q[2]] => p = q}
         : sh \in {x \in (1..MaxRows) \X (1..MaxCols) :
                     x[1] * x[2] <= Cardinality(UnmergedLetters)}}

CallRenderUnmerged ==
  /\ op = "none"
  /\ \E g \in UnmergedGrids, w \in Widths :
       /\ op' = "render_grid"
       /\ Returned(g, w)
       /\ UNCHANGED <<LABELS, placements, source_order>>

SpecNoMerges == Init /\ [][CallRenderUnmerged]_vars

TypeOK ==
  /\ op \in {"none", "render_grid", "build_4col", "build_2col", "build_1col"}
  /\ raised \in {"none", "ValueError"}
  /\ col_width \in (0..MaxWidth) \cup {Width4Col, Width2Col, Width1Col}
  /\ result = Join(lines)

----------------------------------------------------------------------------
(* Vocabulary of the properties *)

\* render_grid ran on a grid with at least one row and one column and returned
Rendered ==
  /\ op \in {"render_grid", "build_4col", "build_2col", "build_1col"}
  /\ raised = "none"
  /\ Len(grid) >= 1
  /\ Len(grid[1]) >= 1

Rows == Len(grid)
Cols == Len(grid[1])

\* the common length of the lines of a diagram of Cols columns
LineLength == Cols * (col_width + 1) + 1

\* the border line above row k (0-based), and for k = Rows the bottom border
BorderOf(ls, k) == ls[3 * k + 1]

\* content line idx (0 or 1) of row r (0-based)
ContentOf(ls, r, idx) == ls[3 * r + 2 + idx]

\* the position, in a line, of the glyph at column boundary c (0..Cols)
BoundaryPos(c) == c * (col_width + 1) + 1

Junctions == {TEE_DOWN, TEE_UP, TEE_RIGHT, TEE_LEFT, CROSS}

\* every occupied region is an axis-aligned rectangle: an identifier fills the
\* bounding box of the slots that hold it
ValidGrid(g) ==
  \A id \in Identifiers :
    LET held == {rc \in (1..Len(g)) \X (1..Len(g[1])) : g[rc[1]][rc[2]] = id}
    IN  \A p \in held, q \in held : g[p[1]][q[2]] = id

\* all slots hold the same single identifier
Uniform(g) ==
  /\ g[1][1] # None
  /\ \A r \in 1..Len(g) : \A c \in 1..Len(g[1]) : g[r][c] = g[1][1]

----------------------------------------------------------------------------
(* C1 *)

\* C1: every line of the diagram of a grid with rows >= 1 and cols >= 1 - the
\* border line above each row, the two content lines of each row and the bottom
\* border, 3*rows + 1 lines in all - has exactly cols*(w+1)+1 characters.
C1_Rectangularity ==
  Rendered =>
    /\ Len(lines) = 3 * Rows + 1
    /\ \A i \in 1..Len(lines) : Len(lines[i]) = LineLength

\* a two-column row merged into one span, with a cell left unfilled below it
C1_Witness ==
  /\ op = "render_grid"
  /\ grid = <<<<"a", "a">>, <<"b", None>>>>
  /\ col_width = 3
  /\ Len(lines) = 7
  /\ Len(lines[2]) = 9

----------------------------------------------------------------------------
(* C2 *)

\* C2: a grid whose slots all hold one identifier renders as one block: the top
\* line is the corner, then only horizontal line, then the corner; so is the
\* bottom line; every other line starts and ends with the vertical line; and no
\* junction glyph and no interior line glyph appears anywhere.
C2_SingleBlock ==
  (Rendered /\ Uniform(grid)) =>
    /\ lines[1] = <<CORNER_RD>> \o Rep(HLINE, LineLength - 2) \o <<CORNER_DL>>
    /\ lines[Len(lines)] = <<CORNER_UR>> \o Rep(HLINE, LineLength - 2) \o <<CORNER_UL>>
    /\ \A i \in 2..(Len(lines) - 1) :
         /\ lines[i][1] = VLINE
         /\ lines[i][LineLength] = VLINE
         /\ \A j \in 2..(LineLength - 1) : lines[i][j] \notin {VLINE, HLINE}
    /\ \A i \in 1..Len(lines) : \A j \in 1..LineLength : lines[i][j] \notin Junctions

----------------------------------------------------------------------------
(* C3 *)

\* the vertical mirror image of a glyph
FlipGlyph(ch) ==
  CASE ch = CORNER_RD -> CORNER_UR
    [] ch = CORNER_UR -> CORNER_RD
    [] ch = CORNER_DL -> CORNER_UL
    [] ch = CORNER_UL -> CORNER_DL
    [] ch = TEE_DOWN -> TEE_UP
    [] ch = TEE_UP -> TEE_DOWN
    [] OTHER -> ch

FlipLine(l) == [j \in 1..Len(l) |-> FlipGlyph(l[j])]

\* the grid with its rows reversed
Reversed(g) == [r \in 1..Len(g) |-> g[Len(g) + 1 - r]]

\* border line k of the diagram, flipped, is border line Rows - k of the diagram
\* of the reversed grid
MirroredAt(k) ==
  FlipLine(BorderOf(lines, k)) =
    BorderOf(RenderLines(LABELS, Reversed(grid), col_width), Rows - k)

\* C3: for a valid grid, the border lines of the diagram of the reversed grid,
\* read bottom to top, are the border lines of the diagram of the grid, read top
\* to bottom, with every glyph flipped vertically.
C3_BorderSymmetry ==
  (Rendered /\ ValidGrid(grid)) => \A k \in 0..Rows : MirroredAt(k)

\* the part of the symmetry the renderer has: the borders between two rows
InteriorBorderSymmetry ==
  Rendered => \A k \in 1..(Rows - 1) : MirroredAt(k)

\* the top and bottom borders mirror each other when neither the first nor the
\* last row has two adjacent equal slots
OuterBorderSymmetry ==
  (/\ Rendered
   /\ \A c \in 1..(Cols - 1) : /\ grid[1][c] # grid[1][c + 1]
                               /\ grid[Rows][c] # grid[Rows][c + 1])
    => (MirroredAt(0) /\ MirroredAt(Rows))

----------------------------------------------------------------------------
(* C4 *)

\* the call of the trivial-grid scenario: [["a"]], width 4, 'a' labelled "Alpha"
TrivialCall ==
  /\ op = "render_grid"
  /\ LABELS = AlphaLabels
  /\ grid = <<<<"a">>>>
  /\ col_width = 4

\* C4 as stated: the four lines are the top border, '|  Al', '|  [A' and the
\* bottom border: the content lines end after the cut text.
C4_TrivialGridAsStated ==
  TrivialCall =>
    lines = << <<CORNER_RD, HLINE, HLINE, HLINE, HLINE, CORNER_DL>>,
               <<VLINE, SPACE, SPACE, "A", "l">>,
               <<VLINE, SPACE, SPACE, "[", "A">>,
               <<CORNER_UR, HLINE, HLINE, HLINE, HLINE, CORNER_UL>> >>

\* C4, amended: the two content lines also end with the vertical line: the label
\* and the bracketed letter are indented by two spaces and cut to the 4
\* characters of the span with no ellipsis, between two vertical lines.
C4_TrivialGrid ==
  TrivialCall =>
    /\ lines = << <<CORNER_RD, HLINE, HLINE, HLINE, HLINE, CORNER_DL>>,
                  <<VLINE, SPACE, SPACE, "A", "l", VLINE>>,
                  <<VLINE, SPACE, SPACE, "[", "A", VLINE>>,
                  <<CORNER_UR, HLINE, HLINE, HLINE, HLINE, CORNER_UL>> >>
    /\ result = <<CORNER_RD, HLINE, HLINE, HLINE, HLINE, CORNER_DL, NEWLINE,
                   VLINE, SPACE, SPACE, "A", "l", VLINE, NEWLINE,
                   VLINE, SPACE, SPACE, "[", "A", VLINE, NEWLINE,
                   CORNER_UR, HLINE, HLINE, HLINE, HLINE, CORNER_UL>>

C4_Witness ==
  /\ TrivialCall
  /\ Len(lines) = 4
  /\ lines[2][4] = "A"
  /\ lines[2][6] = VLINE

----------------------------------------------------------------------------
(* C5 *)

\* the slots hold pairwise distinct identifiers
AllDistinct(g) ==
  /\ \A r \in 1..Len(g) : \A c \in 1..Len(g[1]) : g[r][c] # None
  /\ \A p \in (1..Len(g)) \X (1..Len(g[1])) :
       \A q \in (1..Len(g)) \X (1..Len(g[1])) :
         g[p[1]][p[2]] = g[q[1]][q[2]] => p = q

\* the glyph a grid without merges has at column boundary c of border line k
UnmergedGlyph(k, c) ==
  IF k = 0
  THEN IF c = 0 THEN CORNER_RD ELSE IF c = Cols THEN CORNER_DL ELSE TEE_DOWN
  ELSE IF k = Rows
  THEN IF c = 0 THEN CORNER_UR ELSE IF c = Cols THEN CORNER_UL ELSE TEE_UP
  ELSE IF c = 0 THEN TEE_RIGHT ELSE IF c = Cols THEN TEE_LEFT ELSE CROSS

\* (checked under SpecNoMerges: the grids of up to MaxRows x MaxCols slots that
\* hold pairwise distinct letters)
\* C5: in the diagram of a grid with rows >= 2 and cols >= 2 and no merges, the
\* four outer corners are the corner glyphs, the other boundaries of the top
\* border are tees pointing down, those of the bottom border tees pointing up,
\* every border between two rows starts with the tee pointing right and ends
\* with the tee pointing left, and every interior corner is the cross.
C5_NoMerges ==
  (Rendered /\ Rows >= 2 /\ Cols >= 2 /\ AllDistinct(grid)) =>
    \A k \in 0..Rows : \A c \in 0..Cols :
      BorderOf(lines, k)[BoundaryPos(c)] = UnmergedGlyph(k, c)

C5_Witness ==
  /\ op = "render_grid"
  /\ grid = <<<<"a", "b">>, <<"c", "d">>>>
  /\ col_width = 3
  /\ lines[4] = <<TEE_RIGHT, HLINE, HLINE, HLINE, CROSS, HLINE, HLINE, HLINE, TEE_LEFT>>
  /\ lines[7][5] = TEE_UP

\* three rows and two columns: a border between two rows that is not next to
\* the top border
C5_ThreeRows ==
  /\ op = "render_grid"
  /\ grid = <<<<"a", "b">>, <<"c", "d">>, <<"e", "f">>>>
  /\ col_width = 1
  /\ lines[7] = <<TEE_RIGHT, HLINE, CROSS, HLINE, TEE_LEFT>>

----------------------------------------------------------------------------
(* C6 *)

\* the characters of a line between column boundary c and c + 1
Between(l, c) == SubSeq(l, BoundaryPos(c) + 1, BoundaryPos(c + 1) - 1)

----------------------------------------------------------------------------
(* C7 *)

\* C7: render_grid returns the empty string, and raises nothing, for a grid
\* with no rows and for a grid whose first row has no columns, whatever the
\* column width.
C7_EmptyGrid ==
  (op = "render_grid" /\ (Len(grid) = 0 \/ Len(grid[1]) = 0)) =>
    (result = <<>> /\ raised = "none")

C7_Witness ==
  /\ op = "render_grid"
  /\ grid = <<<<>>>>
  /\ col_width = MaxWidth
  /\ result = <<>>

----------------------------------------------------------------------------
(* C8 *)

\* an adapter was called without the identifiers it needs: build_4col on an
\* empty placement mapping, build_2col or build_1col on an empty source order
AdapterCalledOnNothing ==
  \/ op = "build_4col" /\ placements = <<>>
  \/ op \in {"build_2col", "build_1col"} /\ source_order = <<>>

\* C8: an adapter called without the identifiers it needs fails with an error;
\* it never returns a result.
C8_AdaptersRejectEmptyInput ==
  AdapterCalledOnNothing => raised # "none"

----------------------------------------------------------------------------
(* C9 *)

\* the identifiers of a sequence are pairwise distinct
PairwiseDistinct(seq) ==
  \A i \in 1..Len(seq) : \A j \in 1..Len(seq) : seq[i] = seq[j] => i = j

\* the identifiers other than 'c', in arrival order
Others == SelectSeq(source_order, LAMBDA x : x # "c")

\* the rows of the grid other than the full row of 'c', top to bottom
OtherRows == SelectSeq(grid, LAMBDA row : row # <<"c", "c">>)

\* the rows of the grid in which an identifier occurs
RowsHolding(id) == {r \in 1..Len(grid) : \E c \in 1..Len(grid[r]) : grid[r][c] = id}

InOrder(id) == \E i \in 1..Len(source_order) : source_order[i] = id

\* C9: for a source order of pairwise distinct identifiers the grid of
\* build_2col has 2 columns in every row; 'c', when present, fills both columns
\* of one row; the other identifiers, in arrival order, fill the other rows two
\* per row, left then right, an odd last one filling both columns of its row;
\* every identifier of the order is in exactly one row and no other value is in
\* the grid.
C9_Flow2Grid ==
  (op = "build_2col" /\ PairwiseDistinct(source_order)) =>
    /\ \A r \in 1..Len(grid) : Len(grid[r]) = 2
    /\ InOrder("c") => Cardinality({r \in 1..Len(grid) : grid[r] = <<"c", "c">>}) = 1
    /\ Len(OtherRows) = (Len(Others) + 1) \div 2
    /\ \A k \in 1..Len(OtherRows) :
         OtherRows[k] = IF 2 * k <= Len(Others)
                        THEN <<Others[2 * k - 1], Others[2 * k]>>
                        ELSE <<Others[2 * k - 1], Others[2 * k - 1]>>
    /\ \A id \in Cells :
         Cardinality(RowsHolding(id)) = IF InOrder(id) THEN 1 ELSE 0

\* 'c' in the middle and an odd number of other identifiers
C9_Witness ==
  /\ op = "build_2col"
  /\ source_order = <<"a", "b", "c", "d">>
  /\ grid = <<<<"a", "b">>, <<"d", "d">>, <<"c", "c">>>>

----------------------------------------------------------------------------
(* C10 *)

\* column s (0-based) starts a maximal run of row r (0-based)
RunStart(r, s) == s = 0 \/ grid[r + 1][s] # grid[r + 1][s + 1]

\* the length of the maximal run of row r that starts at column s
RunLength(r, s) ==
  CHOOSE n \in 1..(Cols - s) :
    /\ \A j \in 0..(n - 1) : grid[r + 1][s + j + 1] = grid[r + 1][s + 1]
    /\ s + n = Cols \/ grid[r + 1][s + n + 1] # grid[r + 1][s + 1]

\* the text a run carries on content line idx: none for a run of None and for
\* every row of a vertical merge but its first
RunText(r, s, idx) ==
  LET cur == grid[r + 1][s + 1]
  IN  IF cur = None THEN <<>>
      ELSE IF r = 0 \/ grid[r][s + 1] # cur
      THEN IF idx = 0
           THEN <<SPACE, SPACE>> \o (IF cur \in DOMAIN LABELS THEN LABELS[cur]
                                     ELSE <<upper(cur)>>)
           ELSE <<SPACE, SPACE, "[", upper(cur), "]">>
      ELSE <<>>

\* a text cut or padded with spaces to exactly n characters
Fitted(text, n) == [i \in 1..n |-> IF i <= Len(text) THEN text[i] ELSE SPACE]

\* C10: on both content lines of row r, every maximal run of n equal slots that
\* starts at column s is drawn as the vertical line followed by a field of
\* w*n + (n-1) characters; the field is the run's text (two spaces, then the
\* label or the bracketed upper-case identifier), cut or padded to the field,
\* in the first row of the run's span only (r = 0 or another value above at
\* column s), and blank in every other row and for a run of None.
C10_ContentLines ==
  Rendered =>
    \A r \in 0..(Rows - 1) : \A s \in 0..(Cols - 1) : \A idx \in {0, 1} :
      RunStart(r, s) =>
        LET n == RunLength(r, s)
            l == ContentOf(lines, r, idx)
            from == s * (col_width + 1) + 1
            width == col_width * n + (n - 1)
        IN  /\ l[from] = VLINE
            /\ SubSeq(l, from + 1, from + width) = Fitted(RunText(r, s, idx), width)
            /\ l[from + width + 1] = VLINE

\* a two-column span merged over two rows: text in its first row only
C10_Witness ==
  /\ op = "render_grid"
  /\ LABELS = SourceLabels
  /\ grid = <<<<"a", "a">>, <<"a", "a">>>>
  /\ col_width = 4
  /\ lines[2] = <<VLINE, SPACE, SPACE, "S", "T", "A", "T", "U", "S", SPACE, VLINE>>
  /\ lines[3] = <<VLINE, SPACE, SPACE, "[", "A", "]", SPACE, SPACE, SPACE, SPACE, VLINE>>
  /\ lines[5] = <<VLINE>> \o Rep(SPACE, 9) \o <<VLINE>>

----------------------------------------------------------------------------
(* C11 *)

\* the glyphs with an arm to the right, and those with an arm to the left
RightArmed == {CORNER_RD, TEE_RIGHT, TEE_DOWN, CROSS, CORNER_UR, TEE_UP, HLINE}
LeftArmed  == {CORNER_DL, TEE_LEFT, TEE_DOWN, CROSS, CORNER_UL, TEE_UP, HLINE}

\* on border line l, the fill between the boundaries c and c + 1 and the two
\* glyphs next to it agree: a drawn fill meets an arm on both sides, a blank
\* fill meets none
ConnectedAt(l, c) ==
  LET fill == Between(l, c)
      lg == l[BoundaryPos(c)]
      rg == l[BoundaryPos(c + 1)]
  IN  /\ fill \in {Rep(HLINE, col_width), Rep(SPACE, col_width)}
      /\ fill = Rep(HLINE, col_width) => (lg \in RightArmed /\ rg \in LeftArmed)
      /\ fill = Rep(SPACE, col_width) =>
           (lg \notin RightArmed \cup {STUB_R} /\ rg \notin LeftArmed \cup {STUB_L})

\* C11: in every border line of the diagram of a rectangular grid, unfilled
\* slots included, a fill of horizontal line has a glyph with a right arm on
\* its left and a glyph with a left arm on its right, and a blank fill has no
\* arm pointing into it on either side.
C11_SegmentsConnect ==
  Rendered => \A k \in 0..Rows : \A c \in 0..(Cols - 1) : ConnectedAt(BorderOf(lines, k), c)

\* no slot of None lies directly above another
NoStackedNone ==
  \A r \in 1..(Rows - 1) : \A c \in 1..Cols : ~(grid[r][c] = None /\ grid[r + 1][c] = None)

\* what the renderer has of it: the segments connect in every grid in which no
\* two unfilled slots are stacked
SegmentsConnectUnlessStackedNone ==
  (Rendered /\ NoStackedNone) =>
    \A k \in 0..Rows : \A c \in 0..(Cols - 1) : ConnectedAt(BorderOf(lines, k), c)

----------------------------------------------------------------------------
(* C12 *)

\* the position of an identifier in the source order
PlaceInOrder(id) == CHOOSE i \in 1..Len(source_order) : source_order[i] = id

\* the row of the grid that holds an identifier
RowOf(id) == CHOOSE r \in 1..Len(grid) : \E c \in 1..Len(grid[r]) : grid[r][c] = id

\* C12: for a source order of pairwise distinct identifiers that contains 'c',
\* every identifier that precedes 'c' in the order is in a row above the row
\* of 'c' and every identifier that follows 'c' is in a row below it.
C12_OrderAroundFullRow ==
  (op = "build_2col" /\ PairwiseDistinct(source_order) /\ InOrder("c")) =>
    \A i \in 1..Len(source_order) :
      /\ i < PlaceInOrder("c") => RowOf(source_order[i]) < RowOf("c")
      /\ i > PlaceInOrder("c") => RowOf(source_order[i]) > RowOf("c")

\* where the adapter puts the full row: 'c', the k-th cell of the order, is in
\* the k-th row of the grid, or right below the rows of the other cells when
\* these are fewer than k - 1
FullRowPlace ==
  (op = "build_2col" /\ PairwiseDistinct(source_order) /\ InOrder("c")) =>
    LET k == PlaceInOrder("c")
        pairs == (Len(Others) + 1) \div 2
    IN  RowOf("c") = IF k - 1 <= pairs THEN k ELSE pairs + 1

====
